---- MODULE Spec2Model ----
(***************************************************************************)
(* Model of the TypeScript comment fixers of this repository:              *)
(*   src/ts-comment-fixer.py   (class CommentFixer, main)                  *)
(*   src/fix_ts_comments.py    (fix_file, main)                            *)
(* A text is a sequence of one-character strings.  The regular expressions *)
(* of the rewrite rules are modelled by what Python's re module does with  *)
(* them: leftmost match, greedy quantifiers, non-overlapping left-to-right *)
(* substitution, ^ and $ in MULTILINE mode.                                *)
(***************************************************************************)
EXTENDS Integers, Sequences, FiniteSets, TLC

(***************************************************************************)
(* Bounds of the model.                                                    *)
(***************************************************************************)
\* longest text enumerated character by character
MaxLen == 4
\* most lines of a text built from LineKinds
MaxLines == 5
\* number of files on disk
NumFiles == 2

(***************************************************************************)
(* Characters.  One representative per character class the patterns tell   *)
(* apart: slash, equals sign, blank, newline, upper-case letter,           *)
(* lower-case letter.                                                      *)
(***************************************************************************)
NL == "\n"
Alphabet == {"/", "=", " ", NL, "A", "a"}
\* \s
WS == {" ", NL}
\* [A-Z]
Upper == {"A"}
\* [A-Z0-9 _-]
TitleCh == {"A", " "}
\* [A-Za-z]
Letter == {"A", "a"}
\* . (anything but a newline)
Dot == Alphabet \ {NL}
\* {5,} of the naked-header pattern
MinNakedTail == 5

(***************************************************************************)
(* Regular-expression primitives.                                          *)
(***************************************************************************)
RECURSIVE SkipWhile(_, _, _)
\* first position >= i whose character is not in class C (Len(s)+1 if none):
\* the end of a greedy C* started at i
SkipWhile(s, i, C) ==
  IF i <= Len(s) /\ s[i] \in C THEN SkipWhile(s, i + 1, C) ELSE i

\* ^ in MULTILINE mode
AtLineStart(s, i) == i = 1 \/ (i > 1 /\ i <= Len(s) + 1 /\ s[i - 1] = NL)
\* $ in MULTILINE mode
AtLineEnd(s, i) == i = Len(s) + 1 \/ (i <= Len(s) /\ s[i] = NL)
\* the characters s[i..j-1]
Slice(s, i, j) == SubSeq(s, i, j - 1)
CharAt(s, i) == IF i >= 1 /\ i <= Len(s) THEN s[i] ELSE ""

\* (\/\/\s*=+) at i: the end of the match, 0 when there is none
DividerEnd(s, i) ==
  IF CharAt(s, i) = "/" /\ CharAt(s, i + 1) = "/"
  THEN LET j == SkipWhile(s, i + 2, WS)
           k == SkipWhile(s, j, {"="})
       IN IF k > j THEN k ELSE 0
  ELSE 0

\* the groups of (\/\/\s*=+)\s*\n([A-Z][A-Z0-9 _-]+)\s*\n(\/\/\s*=+) at i:
\* [ok, d1 (end of group 1), t0, t1 (group 2), d0, d1e (group 3)]
TitleMatch(s, i) ==
  LET k  == DividerEnd(s, i)
      w  == SkipWhile(s, k, WS)
      t  == SkipWhile(s, w + 1, TitleCh)
      w2 == SkipWhile(s, t, WS)
      d  == DividerEnd(s, w2)
      ok == /\ k # 0
            /\ w > k /\ s[w - 1] = NL
            /\ CharAt(s, w) \in Upper
            /\ t >= w + 2
            /\ w2 > t /\ s[w2 - 1] = NL
            /\ d # 0
  IN IF ok THEN [ok |-> TRUE, g1 |-> k, t0 |-> w, t1 |-> t, d0 |-> w2, e |-> d]
     ELSE [ok |-> FALSE, g1 |-> 0, t0 |-> 0, t1 |-> 0, d0 |-> 0, e |-> 0]

\* the position of the slash of (\s+)\/(\s+[A-Za-z]) matched at i, 0 if none
ObjectSlash(s, i) ==
  IF CharAt(s, i) \in WS
  THEN LET j == SkipWhile(s, i, WS)
           k == SkipWhile(s, j + 1, WS)
       IN IF CharAt(s, j) = "/" /\ k > j + 1 /\ CharAt(s, k) \in Letter
          THEN j ELSE 0
  ELSE 0

(***************************************************************************)
(* The rewrite rules.  MatchEnd(rule, s, i) is the position just after the *)
(* match of the rule's pattern that starts at i, 0 when the pattern does   *)
(* not match at i.                                                         *)
(***************************************************************************)
MatchEnd(rule, s, i) ==
  CASE rule = "standalone" ->
         \* ^\/(?!\/)(.*)$
         IF AtLineStart(s, i) /\ CharAt(s, i) = "/" /\ CharAt(s, i + 1) # "/"
         THEN SkipWhile(s, i + 1, Dot) ELSE 0
    [] rule = "divider_slash" ->
         \* ^\/(\s*=+)
         IF AtLineStart(s, i) /\ CharAt(s, i) = "/"
         THEN LET j == SkipWhile(s, i + 1, WS)
                  k == SkipWhile(s, j, {"="})
              IN IF k > j THEN k ELSE 0
         ELSE 0
    [] rule = "section_name" ->
         \* ^\/(\s+[A-Z][A-Z0-9 _-]+)
         IF AtLineStart(s, i) /\ CharAt(s, i) = "/"
         THEN LET j == SkipWhile(s, i + 1, WS)
                  t == SkipWhile(s, j + 1, TitleCh)
              IN IF j > i + 1 /\ CharAt(s, j) \in Upper /\ t > j + 1
                 THEN t ELSE 0
         ELSE 0
    [] rule = "title" -> TitleMatch(s, i).e
    [] rule = "object" ->
         LET j == ObjectSlash(s, i)
         IN IF j # 0 THEN SkipWhile(s, j + 1, WS) + 1 ELSE 0
    [] rule = "naked" ->
         \* ^([A-Z][A-Z0-9 _-]{5,})$
         IF AtLineStart(s, i) /\ CharAt(s, i) \in Upper
         THEN LET t == SkipWhile(s, i + 1, TitleCh)
              IN IF t - (i + 1) >= MinNakedTail /\ AtLineEnd(s, t)
                 THEN t ELSE 0
         ELSE 0
    [] rule = "bare_divider" ->
         \* ^(=+)$
         IF AtLineStart(s, i)
         THEN LET k == SkipWhile(s, i, {"="})
              IN IF k > i /\ AtLineEnd(s, k) THEN k ELSE 0
         ELSE 0

\* the replacement text for the match of rule at i that ends before e
Replacement(rule, s, i, e) ==
  CASE rule \in {"standalone", "divider_slash", "section_name"} ->
         \* //\1
         <<"/", "/">> \o Slice(s, i + 1, e)
    [] rule = "title" ->
         \* \1\n// \2\n\3
         LET m == TitleMatch(s, i)
         IN Slice(s, i, m.g1) \o <<NL, "/", "/", " ">> \o Slice(s, m.t0, m.t1)
            \o <<NL>> \o Slice(s, m.d0, m.e)
    [] rule = "object" ->
         \* \1//\2
         LET j == ObjectSlash(s, i)
         IN Slice(s, i, j) \o <<"/", "/">> \o Slice(s, j + 1, e)
    [] rule \in {"naked", "bare_divider"} ->
         \* // \1
         <<"/", "/", " ">> \o Slice(s, i, e)

RECURSIVE NextMatch(_, _, _)
\* the first position >= i at which the rule's pattern matches, 0 if none:
\* the scan of pattern.sub and pattern.findall
NextMatch(rule, s, i) ==
  IF i > Len(s) THEN 0
  ELSE IF MatchEnd(rule, s, i) # 0 THEN i
  ELSE NextMatch(rule, s, i + 1)

RECURSIVE SubFrom(_, _, _)
\* pattern.sub / pattern.findall from position i on: the rewritten rest of
\* the text and the number of (non-overlapping) matches
SubFrom(rule, s, i) ==
  LET m == NextMatch(rule, s, i)
  IN IF m = 0 THEN [text |-> Slice(s, i, Len(s) + 1), n |-> 0]
     ELSE LET e == MatchEnd(rule, s, m)
              r == SubFrom(rule, s, e)
          IN [text |-> Slice(s, i, m) \o Replacement(rule, s, m, e) \o r.text,
              n |-> r.n + 1]

\* one rule applied to a whole text: [text, n]
ApplyRule(rule, s) == SubFrom(rule, s, 1)

(***************************************************************************)
(* CommentFixer.fix_file, the transformation (ts-comment-fixer.py 47-107). *)
(***************************************************************************)
Categories ==
  {"section_headers", "section_titles", "object_comments", "naked_headers",
   "section_dividers", "multiline_sections", "mixed_slash_headers",
   "standalone_slashes"}
Keys == Categories \cup {"total"}
\* fix_counts as initialised: every key present, at zero
ZeroCounts == [k \in Keys |-> 0]

\* range(3) of the pattern 6 loop
Pattern6Iterations == 3

\* the passes of fix_file in the order they run, each with the key of
\* fix_counts its match count is added to
\* the passes with the divider loop (pattern 6) ahead of the others
PassesDividerFirst ==
  [i \in 1..Pattern6Iterations |->
     [rule |-> "divider_slash", key |-> "section_headers"]]
  \o << [rule |-> "standalone",    key |-> "standalone_slashes"],
        [rule |-> "standalone",    key |-> "standalone_slashes"],
        [rule |-> "title",         key |-> "multiline_sections"],
        [rule |-> "object",        key |-> "object_comments"],
        [rule |-> "naked",         key |-> "naked_headers"],
        [rule |-> "bare_divider",  key |-> "section_dividers"] >>
Passes ==
  << [rule |-> "standalone",    key |-> "standalone_slashes"],
     [rule |-> "standalone",    key |-> "standalone_slashes"],
     [rule |-> "title",         key |-> "multiline_sections"],
     [rule |-> "object",        key |-> "object_comments"],
     [rule |-> "naked",         key |-> "naked_headers"],
     [rule |-> "bare_divider",  key |-> "section_dividers"] >>
  \o [i \in 1..Pattern6Iterations |->
        [rule |-> "divider_slash", key |-> "section_headers"]]

\* the element of a one-element set; The({e(x) : x \in {v}}) is e with x
\* standing for the value of v, computed once
The(S) == CHOOSE x \in S : TRUE

\* fix_counts[key] += match_count
AddCountOverwrites(counts, key, n) == [counts EXCEPT ![key] = n]
AddCount(counts, key, n) == [counts EXCEPT ![key] = @ + n]

\* one pass on st = [text, counts]:
\* match_count = len(pattern.findall(content)); content = pattern.sub(...);
\* fix_counts[key] += match_count
RunPass(p, st) ==
  The({ [text |-> r.text, counts |-> AddCount(st.counts, p.key, r.n)] :
        r \in {ApplyRule(p.rule, st.text)} })

RECURSIVE RunPasses(_, _, _)
\* the passes ps[i..] applied in order to st = [text, counts]
RunPasses(ps, i, st) ==
  IF i > Len(ps) THEN st
  ELSE The({ RunPasses(ps, i + 1, next) : next \in {RunPass(ps[i], st)} })

RECURSIVE SumOver(_, _)
SumOver(f, S) ==
  IF S = {} THEN 0
  ELSE LET x == CHOOSE y \in S : TRUE IN f[x] + SumOver(f, S \ {x})

\* fix_counts["total"] = sum(v for k, v in fix_counts.items() if k != "total")
WithoutTotal(counts) == counts
WithTotal(counts) == [counts EXCEPT !["total"] = SumOver(counts, Categories)]

\* the text and the counts fix_file has computed when it reaches its
\* "Check if any changes were made"
Transform(s) ==
  The({ [text |-> st.text, counts |-> WithTotal(st.counts)] :
        st \in {RunPasses(Passes, 1, [text |-> s, counts |-> ZeroCounts])} })

\* the tally fix_file hands back for a text s it could read and, where asked
\* to, write, t being Transform(s): fix_counts if the text changed, all zeros
\* if not (lines 110-117)
ReturnedCounts(s, t) == IF t.text # s THEN t.counts ELSE ZeroCounts

\* Normalize of the specification: the text fix_file would leave in the file
\* and the tally it returns
Normalize(s) ==
  The({ [text |-> t.text, tally |-> ReturnedCounts(s, t)] :
        t \in {Transform(s)} })

(***************************************************************************)
(* fix_ts_comments.py, fix_file: the transformation (lines 28-50).         *)
(***************************************************************************)
SimplePasses ==
  << "divider_slash", "section_name", "title", "object", "naked",
     "bare_divider" >>

RECURSIVE RunSimple(_, _, _)
RunSimple(ps, i, s) ==
  IF i > Len(ps) THEN s ELSE RunSimple(ps, i + 1, ApplyRule(ps[i], s).text)

SimpleTransform(s) == RunSimple(SimplePasses, 1, s)

(***************************************************************************)
(* Input texts.                                                            *)
(***************************************************************************)
\* every text of at most MaxLen characters
ShortTexts == UNION {[1..n -> Alphabet] : n \in 0..MaxLen}

\* lines that banners are made of
LineKinds ==
  { <<"/", "/", "=">>,
    <<"/", "=", " ">>,
    <<"=">>,
    <<"A", "A">>,
    <<"A", "A", "A", "A", "A", "A">> }

\* "/ === SECTION ===\n", with A for each upper-case letter
SectionLine ==
  <<"/", " ", "=", "=", "=", " ", "A", "A", "A", "A", "A", "A", "A", " ",
    "=", "=", "=", NL>>

\* "/ === \nTITLE\n// ===\n", with A for each upper-case letter
TitleBanner ==
  <<"/", " ", "=", "=", "=", " ", NL, "A", "A", "A", "A", "A", NL,
    "/", "/", " ", "=", "=", "=", NL>>

\* the scenarios of the specification, in the model's alphabet, and code
\* lines with a slash that is no comment marker
ScenarioTexts ==
  { SectionLine,
    TitleBanner,
    <<"/", " ", "=", " ", "A", " ", "=", NL>>,
    <<"/", " ", "=", " ", NL, "A", "A", NL, "/", "/", " ", "=", NL>>,
    <<"=", "=", NL>>,
    <<" ", " ", "/", " ", "A", "a", NL>>,
    <<"/", "/", " ", "a", NL>>,
    <<"a", " ", "/", " ", "a", NL>>,
    <<"a", " ", "=", " ", "a", "/", "a", NL>> }

RECURSIVE JoinLines(_)
\* "\n".join(ls)
JoinLines(ls) ==
  IF Len(ls) = 0 THEN <<>>
  ELSE IF Len(ls) = 1 THEN ls[1]
  ELSE ls[1] \o <<NL>> \o JoinLines(Tail(ls))

\* every text of at most MaxLines lines drawn from LineKinds
LineTexts ==
  {JoinLines(ls) : ls \in UNION {[1..n -> LineKinds] : n \in 2..MaxLines}}

Inputs == ShortTexts \cup LineTexts \cup ScenarioTexts

Rules ==
  {"standalone", "divider_slash", "section_name", "title", "object", "naked",
   "bare_divider"}

(***************************************************************************)
(* State.                                                                  *)
(***************************************************************************)
VARIABLES
  \* --- one text under the rewrite rules ---
  input,        \* the text read from the file
  content,      \* fix_file's variable content
  prev,         \* content before the last operation
  fix_counts,   \* fix_file's variable fix_counts
  tally,        \* the tally the last normalization returned
  matches,      \* match_count of the last rule application
  passLog,      \* the <<key, match_count>> of every pass run so far
  step,         \* operations applied so far
  rule,         \* the rule, or the script, being applied
  \* --- one run of ts-comment-fixer.py ---
  dry_run,      \* args.dry_run
  verbose,      \* args.verbose
  mode,         \* "batch" (--path) or "single" (--fix-file)
  force,        \* args.force
  ts_files,     \* the files process_directory found (batch), the file given (single)
  pre,          \* every file's content before the run
  disk,         \* every file's content now
  task,         \* where the fix_file call on each file stands
  local,        \* a running fix_file's content and fix_counts
  result,       \* what the fix_file call on each file returned or raised
  child_error_files, \* error_files of the copies of the fixer in the pool's processes
  calls,        \* how often fix_file was called on each file
  opened,       \* how often each file was opened for writing
  fixed_files,  \* self.fixed_files of the fixer in the main process
  skipped_files, \* self.skipped_files
  error_files,  \* self.error_files
  processed_files, \* process_directory's counter
  collected,    \* the futures as_completed has handed over
  mainpc,       \* where the main process stands
  report,       \* what print_summary printed
  printed,      \* what main printed in single-file mode
  \* --- the directory walk of process_directory ---
  directory,    \* args.path, as its components
  location,     \* the directory each file lies in, relative to args.path
  suffix,       \* the end of each file's name
  walk,         \* the directories os.walk has still to visit
  \* --- one run of fix_ts_comments.py ---
  simple_fixed  \* main's counter fixed_files

textVars ==
  <<input, content, prev, fix_counts, tally, matches, passLog, step, rule>>

runVars ==
  <<dry_run, verbose, mode, force, ts_files, pre, disk, task, local, result,
    child_error_files, calls, opened, fixed_files, skipped_files, error_files,
    processed_files, collected, mainpc, report, printed,
    directory, location, suffix, walk, simple_fixed>>

vars == <<textVars, runVars>>

Files == 1..NumFiles

\* the content of a file that open() or read() raises on (no permission,
\* bytes that are not UTF-8)
BadBytes == <<"?">>

\* the contents files are given
FileTexts ==
  { <<"/", "a">>,
    <<"/", "/", "a">>,
    <<"=">> }

\* further contents for the file of a single-file run: a banner whose first
\* divider ends in a blank; a plain line, a single-slash line and a
\* doubled-slash line; a division; a single-slash divider and a bare header
SingleTexts ==
  { <<"/", "/", "=", " ", NL, "A", "A", NL, "/", "/", "=">>,
    <<"a", NL, "/", "a", NL, "/", "/", "a">>,
    <<"a", " ", "/", " ", "a">>,
    <<"/", "=", NL, "A", "A", "A", "A", "A", "A">> }

NoFunction == [x \in {} |-> 0]
NoResult == [status |-> "none", was_fixed |-> FALSE, counts |-> ZeroCounts]
NoLocal == [content |-> <<>>, fix_counts |-> ZeroCounts, direct_fixes |-> 0]
NoReport ==
  [made |-> FALSE, total_processed |-> 0, fixed |-> 0, errors |-> 0,
   total_fixes |-> ZeroCounts, listed_errors |-> {}]

\* the variables of a run when no run is modelled
RunIdle ==
  /\ dry_run = FALSE /\ verbose = FALSE /\ mode = "none" /\ force = FALSE
  /\ ts_files = {} /\ pre = NoFunction /\ disk = NoFunction
  /\ task = NoFunction /\ local = NoFunction /\ result = NoFunction
  /\ child_error_files = NoFunction /\ calls = NoFunction
  /\ opened = NoFunction /\ fixed_files = NoFunction /\ skipped_files = {}
  /\ error_files = NoFunction /\ processed_files = 0 /\ collected = {}
  /\ mainpc = "none" /\ report = NoReport /\ printed = <<>>
  /\ directory = <<>> /\ location = NoFunction /\ suffix = NoFunction
  /\ walk = {} /\ simple_fixed = 0

\* the variables of the text machines when a run is modelled
TextIdle ==
  /\ input = <<>> /\ content = <<>> /\ prev = <<>>
  /\ fix_counts = ZeroCounts /\ tally = ZeroCounts /\ matches = 0
  /\ passLog = <<>> /\ step = 0 /\ rule = "none"

TextInit(S) ==
  /\ RunIdle
  /\ input \in S
  /\ content = input
  /\ prev = input
  /\ fix_counts = ZeroCounts
  /\ tally = ZeroCounts
  /\ matches = 0
  /\ passLog = <<>>
  /\ step = 0
  /\ rule = ""

(***************************************************************************)
(* Normalization applied to a text, then to the text it produced.          *)
(***************************************************************************)
\* CommentFixer.fix_file's transformation applied to content
NormalizeStep ==
  /\ step < 2
  /\ rule \in {"", "CommentFixer"}
  /\ rule' = "CommentFixer"
  /\ prev' = content
  /\ \E n \in {Normalize(content)} :
       content' = n.text /\ tally' = n.tally
  /\ step' = step + 1
  /\ UNCHANGED <<input, fix_counts, matches, passLog, runVars>>

\* fix_ts_comments.py's transformation applied to content
SimpleStep ==
  /\ step < 2
  /\ rule \in {"", "fix_ts_comments"}
  /\ rule' = "fix_ts_comments"
  /\ prev' = content
  /\ content' = SimpleTransform(content)
  /\ step' = step + 1
  /\ UNCHANGED <<input, fix_counts, tally, matches, passLog, runVars>>

NextNormalize == NormalizeStep \/ SimpleStep

SpecNormalize == TextInit(Inputs) /\ [][NextNormalize]_vars

(***************************************************************************)
(* One rule applied to a text, then to the text it produced.               *)
(***************************************************************************)
RuleStep(r) ==
  /\ step < 2
  /\ rule \in {"", r}
  /\ rule' = r
  /\ prev' = content
  /\ \E a \in {ApplyRule(r, content)} :
       content' = a.text /\ matches' = a.n
  /\ step' = step + 1
  /\ UNCHANGED <<input, fix_counts, tally, passLog, runVars>>

NextRule == \E r \in Rules : RuleStep(r)

SpecRule == TextInit(Inputs) /\ [][NextRule]_vars

(***************************************************************************)
(* fix_file's transformation pass by pass (ts-comment-fixer.py 61-117).    *)
(***************************************************************************)
\* the next pass of Passes: content = pattern.sub(...), fix_counts[key] += n
PassStep ==
  /\ rule = ""
  /\ step < Len(Passes)
  /\ \E p \in {Passes[step + 1]} :
       \E a \in {ApplyRule(p.rule, content)} :
         /\ prev' = content
         /\ content' = a.text
         /\ fix_counts' = AddCount(fix_counts, p.key, a.n)
         /\ matches' = a.n
         /\ passLog' = Append(passLog, <<p.key, a.n>>)
  /\ step' = step + 1
  /\ UNCHANGED <<input, tally, rule, runVars>>

\* lines 106-117: the total, and the tally returned
FinishStep ==
  /\ rule = ""
  /\ step = Len(Passes)
  /\ rule' = "returned"
  /\ fix_counts' = WithTotal(fix_counts)
  /\ tally' = IF content # input THEN WithTotal(fix_counts) ELSE ZeroCounts
  /\ UNCHANGED <<input, content, prev, matches, passLog, step, runVars>>

NextPasses == PassStep \/ FinishStep

SpecPasses == TextInit(Inputs) /\ [][NextPasses]_vars

(***************************************************************************)
(* CommentFixer.fix_file on one file (ts-comment-fixer.py 40-122).  The     *)
(* call runs in a process of the pool, on a pickled copy of the fixer      *)
(* (child = TRUE), or in the main process (child = FALSE).                 *)
(***************************************************************************)
Returned(fixed, counts) ==
  [status |-> "returned", was_fixed |-> fixed, counts |-> counts]
\* the call ended with an exception
Raised == [status |-> "raised", was_fixed |-> FALSE, counts |-> ZeroCounts]

\* d[k] = v
Put(d, k, v) == [x \in DOMAIN d \cup {k} |-> IF x = k THEN v ELSE d[x]]

\* what a write that fails may leave in the file opened with 'w'
PartialWrites(new) == {SubSeq(new, 1, k) : k \in 0..(Len(new) - 1)}

\* where self.error_files[file_path] = str(e) lands: in the copy of the
\* fixer the pool's process unpickled, or in the fixer of the main process
InChildCopy(child) == child

\* self.error_files[file_path] = str(e), in the process the call runs in
RecordError(f, child, msg) ==
  /\ child_error_files' =
       IF InChildCopy(child) THEN Put(child_error_files, f, msg)
       ELSE child_error_files
  /\ error_files' =
       IF InChildCopy(child) THEN error_files ELSE Put(error_files, f, msg)

\* what the handler (lines 118-122) does when the exception came from a
\* place where fix_counts is bound: it returns zeros
HandlerReturns(f, child, msg) ==
  /\ RecordError(f, child, msg)
  /\ result' = [result EXCEPT ![f] = Returned(FALSE, ZeroCounts)]

\* what the handler does when open() or read() raised: fix_counts is not
\* bound yet, so line 122 raises UnboundLocalError out of fix_file
HandlerRaises(f, child, msg) ==
  /\ RecordError(f, child, msg)
  /\ result' = [result EXCEPT ![f] = Raised]

\* "if content != original_content and not self.dry_run" (line 110)
WritesBackAlways(changed) == changed
WritesBackUnchanged(changed) == ~dry_run
WritesBack(changed) == changed /\ ~dry_run

\* fix_file from its start to its return, or to the open() of line 111
FixFileStart(f, child) ==
  /\ task[f] = "queued"
  /\ calls' = [calls EXCEPT ![f] = @ + 1]
  /\ IF disk[f] = BadBytes
     THEN /\ HandlerRaises(f, child, "read")
          /\ task' = [task EXCEPT ![f] = "done"]
          /\ UNCHANGED <<disk, local, opened>>
     ELSE \E t \in {Transform(disk[f])} :
          LET changed == t.text # disk[f]
          IN IF WritesBack(changed)
             THEN /\ opened' = [opened EXCEPT ![f] = @ + 1]
                  /\ \/ \* open(file_path, 'w') raises
                        /\ HandlerReturns(f, child, "write")
                        /\ task' = [task EXCEPT ![f] = "done"]
                        /\ UNCHANGED <<disk, local>>
                     \/ \* the file is open, and empty
                        /\ disk' = [disk EXCEPT ![f] = <<>>]
                        /\ local' = [local EXCEPT ![f] =
                             [content |-> t.text, fix_counts |-> t.counts,
                              direct_fixes |-> 0]]
                        /\ task' = [task EXCEPT ![f] = "writing"]
                        /\ UNCHANGED <<result, child_error_files, error_files>>
             ELSE /\ result' = [result EXCEPT ![f] =
                       Returned(FALSE, ReturnedCounts(disk[f], t))]
                  /\ task' = [task EXCEPT ![f] = "done"]
                  /\ UNCHANGED <<disk, local, opened, child_error_files,
                                 error_files>>

\* f.write(content) and the close of the file (lines 112-113)
FixFileWrite(f, child) ==
  /\ task[f] = "writing"
  /\ task' = [task EXCEPT ![f] = "done"]
  /\ \/ /\ disk' = [disk EXCEPT ![f] = local[f].content]
        /\ result' = [result EXCEPT ![f] = Returned(TRUE, local[f].fix_counts)]
        /\ UNCHANGED <<child_error_files, error_files>>
     \/ \* write, flush or close raises
        /\ \E part \in PartialWrites(local[f].content) :
             disk' = [disk EXCEPT ![f] = part]
        /\ HandlerReturns(f, child, "write")
  /\ UNCHANGED <<local, calls, opened>>

(***************************************************************************)
(* Batch mode: process_directory and print_summary.                        *)
(***************************************************************************)
mainVars ==
  <<fixed_files, skipped_files, processed_files, collected, mainpc, report,
    printed>>
argVars ==
  <<dry_run, verbose, mode, force, ts_files, pre, directory, location, suffix,
    walk, simple_fixed>>

\* a process of the pool runs a submitted fix_file call
WorkerStart(f) ==
  /\ mode = "batch"
  /\ FixFileStart(f, TRUE)
  /\ UNCHANGED <<argVars, mainVars, textVars>>

WorkerWrite(f) ==
  /\ mode = "batch"
  /\ FixFileWrite(f, TRUE)
  /\ UNCHANGED <<argVars, mainVars, textVars>>

\* "elif fix_counts['total'] > 0" (line 161), after "if was_fixed" (line 156)
SkippedAlsoWhenFixed(r) == r.counts["total"] > 0
Skipped(r) == ~r.was_fixed /\ r.counts["total"] > 0

\* one turn of the as_completed loop (lines 149-163)
Collect(f) ==
  /\ mode = "batch" /\ mainpc = "collect"
  /\ f \in ts_files \ collected
  /\ task[f] = "done"
  /\ collected' = collected \cup {f}
  /\ IF result[f].status = "raised"
     THEN \* future.result() raises: process_directory and main end
          /\ mainpc' = "crashed"
          /\ UNCHANGED <<processed_files, fixed_files, skipped_files>>
     ELSE /\ processed_files' = processed_files + 1
          /\ fixed_files' =
               IF result[f].was_fixed
               THEN Put(fixed_files, f, result[f].counts) ELSE fixed_files
          /\ skipped_files' =
               IF Skipped(result[f])
               THEN skipped_files \cup {f} ELSE skipped_files
          /\ UNCHANGED mainpc
  /\ UNCHANGED <<argVars, textVars, disk, task, local, result,
                 child_error_files, calls, opened, error_files, report,
                 printed>>

\* the tally of one file of S only
SumCountsOfOne(S, F) ==
  IF S = {} THEN ZeroCounts ELSE F[CHOOSE x \in S : TRUE]

RECURSIVE SumCounts(_, _)
\* the key-wise sum of F[f] over the files f of S
SumCounts(S, F) ==
  IF S = {} THEN ZeroCounts
  ELSE LET f == CHOOSE x \in S : TRUE
           rest == SumCounts(S \ {f}, F)
       IN [k \in Keys |-> F[f][k] + rest[k]]

\* the counts of the fix_file call print_summary makes on a skipped file
\* (line 201); the fixer is in dry-run mode, the file is not written
Reprocessed(f) == Normalize(disk[f]).tally

\* the files print_summary calls fix_file on again (lines 197-201)
ReprocessedNever == {}
ReprocessedFiles == IF dry_run THEN skipped_files ELSE {}

\* print_summary (lines 165-236), after the loop of process_directory ended
PrintSummary ==
  /\ mode = "batch" /\ mainpc = "collect"
  /\ collected = ts_files
  /\ mainpc' = "done"
  /\ calls' = [f \in Files |->
                 IF f \in ReprocessedFiles THEN calls[f] + 1 ELSE calls[f]]
  /\ LET fromFixed == SumCounts(DOMAIN fixed_files, fixed_files)
         fromSkipped ==
           SumCounts(ReprocessedFiles,
                     [f \in ReprocessedFiles |-> Reprocessed(f)])
     IN report' =
          [made |-> TRUE,
           total_processed |->
             Cardinality(DOMAIN fixed_files) + Cardinality(skipped_files)
               + Cardinality(DOMAIN error_files),
           fixed |->
             IF dry_run
             THEN Cardinality(DOMAIN fixed_files) + Cardinality(skipped_files)
             ELSE Cardinality(DOMAIN fixed_files),
           errors |-> Cardinality(DOMAIN error_files),
           total_fixes |-> [k \in Keys |-> fromFixed[k] + fromSkipped[k]],
           listed_errors |->
             IF verbose THEN {<<f, error_files[f]>> : f \in DOMAIN error_files}
             ELSE {}]
  /\ UNCHANGED <<argVars, textVars, disk, task, local, result,
                 child_error_files, opened, fixed_files, skipped_files,
                 error_files, processed_files, collected, printed>>

(***************************************************************************)
(* Single-file mode: main with --fix-file (lines 257-299).                 *)
(***************************************************************************)
\* fixer.fix_file(args.fix_file), in the main process (line 262)
SingleStart(f) ==
  /\ mode = "single" /\ mainpc = "fix"
  /\ f \in ts_files
  /\ FixFileStart(f, FALSE)
  /\ UNCHANGED <<argVars, mainVars, textVars>>

SingleWrite(f) ==
  /\ mode = "single" /\ mainpc = "fix"
  /\ f \in ts_files
  /\ FixFileWrite(f, FALSE)
  /\ UNCHANGED <<argVars, mainVars, textVars>>

\* the result line (lines 264-270) and the test of line 273
SingleResult(f) ==
  /\ mode = "single" /\ mainpc = "fix"
  /\ f \in ts_files
  /\ task[f] = "done"
  /\ IF result[f].status = "raised"
     THEN \* the exception leaves main
          mainpc' = "crashed" /\ UNCHANGED printed
     ELSE /\ printed' =
               IF dry_run /\ result[f].counts["total"] > 0
               THEN <<<<"Would fix", result[f].counts["total"]>>>>
               ELSE IF result[f].was_fixed
               THEN <<<<"Fixed", result[f].counts["total"]>>>>
               ELSE <<<<"No issues found", 0>>>>
          /\ mainpc' = IF force /\ ~result[f].was_fixed THEN "force" ELSE "done"
  /\ UNCHANGED <<argVars, textVars, disk, task, local, result,
                 child_error_files, calls, opened, fixed_files, skipped_files,
                 error_files, processed_files, collected, report>>

RECURSIVE SplitLines(_)
\* content.split('\n')
SplitLines(s) ==
  The({ IF k > Len(s) THEN <<s>>
        ELSE <<Slice(s, 1, k)>> \o SplitLines(Slice(s, k + 1, Len(s) + 1)) :
        k \in {SkipWhile(s, 1, Dot)} })

\* line.startswith('/') alone
StartsWithAnySlash(line) == Len(line) >= 1 /\ line[1] = "/"
\* line.startswith('/') and not line.startswith('//')
StartsWithSingleSlash(line) ==
  /\ Len(line) >= 1 /\ line[1] = "/"
  /\ ~(Len(line) >= 2 /\ line[2] = "/")

\* the loop of lines 281-288: the new content and direct_fixes
ForceReplace(s) ==
  The({ [text |-> JoinLines([i \in 1..Len(lines) |->
                     IF StartsWithSingleSlash(lines[i])
                     THEN <<"/">> \o lines[i] ELSE lines[i]]),
         n |-> Cardinality({i \in 1..Len(lines) :
                              StartsWithSingleSlash(lines[i])})] :
        lines \in {SplitLines(s)} })

\* force mode from its read to its open() for writing (lines 274-290)
ForceStart(f) ==
  /\ mode = "single" /\ mainpc = "force"
  /\ f \in ts_files
  /\ IF disk[f] = BadBytes
     THEN /\ printed' = Append(printed, <<"Error during force mode", 0>>)
          /\ mainpc' = "done"
          /\ UNCHANGED <<disk, local, opened>>
     ELSE \E d \in {ForceReplace(disk[f])} :
          IF d.n > 0 /\ ~dry_run
          THEN /\ opened' = [opened EXCEPT ![f] = @ + 1]
               /\ \/ \* open(file_path, 'w') raises
                     /\ printed' = Append(printed, <<"Error during force mode", 0>>)
                     /\ mainpc' = "done"
                     /\ UNCHANGED <<disk, local>>
                  \/ \* the file is open, and empty
                     /\ disk' = [disk EXCEPT ![f] = <<>>]
                     /\ local' = [local EXCEPT ![f] =
                          [content |-> d.text, fix_counts |-> ZeroCounts,
                           direct_fixes |-> d.n]]
                     /\ mainpc' = "force_writing"
                     /\ UNCHANGED printed
          ELSE /\ printed' =
                    IF d.n > 0
                    THEN Append(printed, <<"Would apply direct fixes", d.n>>)
                    ELSE printed
               /\ mainpc' = "done"
               /\ UNCHANGED <<disk, local, opened>>
  /\ UNCHANGED <<argVars, textVars, task, result, child_error_files, calls,
                 fixed_files, skipped_files, error_files, processed_files,
                 collected, report>>

\* f.write(new_content) and the close of the file (lines 290-292)
ForceWrite(f) ==
  /\ mode = "single" /\ mainpc = "force_writing"
  /\ f \in ts_files
  /\ mainpc' = "done"
  /\ \/ /\ disk' = [disk EXCEPT ![f] = local[f].content]
        /\ printed' =
             Append(printed, <<"Applied direct fixes", local[f].direct_fixes>>)
     \/ \* write, flush or close raises
        /\ \E part \in PartialWrites(local[f].content) :
             disk' = [disk EXCEPT ![f] = part]
        /\ printed' = Append(printed, <<"Error during force mode", 0>>)
  /\ UNCHANGED <<argVars, textVars, task, local, result, child_error_files,
                 calls, opened, fixed_files, skipped_files, error_files,
                 processed_files, collected, report>>

(***************************************************************************)
(* The runs.                                                               *)
(***************************************************************************)
RunInit ==
  /\ TextIdle
  /\ dry_run \in BOOLEAN
  /\ verbose \in BOOLEAN
  /\ mode \in {"batch", "single"}
  /\ force \in (IF mode = "single" THEN BOOLEAN ELSE {FALSE})
  /\ ts_files \in (IF mode = "single" THEN {{1}}
                    ELSE {1..n : n \in 0..NumFiles})
  /\ pre \in [Files -> FileTexts \cup SingleTexts \cup {BadBytes}]
  /\ mode = "batch" => \A f \in Files : pre[f] \notin SingleTexts
  \* a file the run is not given holds a text the rules would change
  /\ \A f \in Files \ ts_files : pre[f] = <<"/", "a">>
  /\ disk = pre
  /\ task = [f \in Files |-> IF f \in ts_files THEN "queued" ELSE "idle"]
  /\ local = [f \in Files |-> NoLocal]
  /\ result = [f \in Files |-> NoResult]
  /\ child_error_files = NoFunction
  /\ calls = [f \in Files |-> 0]
  /\ opened = [f \in Files |-> 0]
  /\ fixed_files = NoFunction
  /\ skipped_files = {}
  /\ error_files = NoFunction
  /\ processed_files = 0
  /\ collected = {}
  /\ mainpc = IF mode = "batch" THEN "collect" ELSE "fix"
  /\ report = NoReport
  /\ printed = <<>>
  \* the walk is over: ts_files is what it found
  /\ directory = <<>> /\ location = NoFunction /\ suffix = NoFunction
  /\ walk = {} /\ simple_fixed = 0

Init == RunInit

Next ==
  \/ \E f \in Files : WorkerStart(f)
  \/ \E f \in Files : WorkerWrite(f)
  \/ \E f \in Files : Collect(f)
  \/ PrintSummary
  \/ \E f \in Files : SingleStart(f)
  \/ \E f \in Files : SingleWrite(f)
  \/ \E f \in Files : SingleResult(f)
  \/ \E f \in Files : ForceStart(f)
  \/ \E f \in Files : ForceWrite(f)

Spec == Init /\ [][Next]_vars

(***************************************************************************)
(* Discovery: the directory walk of process_directory (lines 124-144).     *)
(* A path is the sequence of its components; "." and ".." occur only as    *)
(* the "." of a relative args.path.                                        *)
(***************************************************************************)
\* args.exclude.split(","), with the default of line 245
ExcludeNames == {"node_modules", ".git", "dist", "build"}

\* the directories below args.path, each by its path relative to args.path
TreeDirs ==
  { <<>>,
    <<"node_modules">>,
    <<"pkg">>,
    <<"pkg", "node_modules">> }

\* the values of args.path: an absolute path (as os.getcwd() gives), and "."
Roots == { <<"/proj">>, <<".">> }

Suffixes == {".ts", ".tsx", ".md"}

\* os.path.join(p, name)
PathJoin(p, name) == Append(p, name)

RECURSIVE NormPath(_)
\* os.path.normpath(p): the "." components are dropped
NormPath(p) ==
  IF p = <<>> THEN <<>>
  ELSE IF Head(p) = "." THEN NormPath(Tail(p))
  ELSE <<Head(p)>> \o NormPath(Tail(p))

\* line 127: [os.path.normpath(os.path.join(directory, d)) for d in exclude_dirs]
ExcludeDirs == {NormPath(PathJoin(directory, d)) : d \in ExcludeNames}

\* the directories os.walk lists in the directory rel
Subdirs(rel) ==
  {d \in TreeDirs : Len(d) = Len(rel) + 1 /\ SubSeq(d, 1, Len(rel)) = rel}

\* line 133: the sub-directories os.walk goes on into; root is the path
\* os.walk gives for rel, args.path joined with rel and not normalized
KeptDirs(rel) ==
  {d \in Subdirs(rel) :
     PathJoin(directory \o rel, d[Len(d)]) \notin ExcludeDirs}

\* line 136: file.endswith('.ts') or file.endswith('.tsx')
IsTypeScript(f) == suffix[f] \in {".ts", ".tsx"}

\* one turn of the os.walk loop (lines 131-137), on the directory rel
WalkStep(rel) ==
  /\ mode = "batch" /\ mainpc = "walk"
  /\ rel \in walk
  /\ walk' = (walk \ {rel}) \cup KeptDirs(rel)
  /\ ts_files' =
       ts_files \cup {f \in Files : location[f] = rel /\ IsTypeScript(f)}
  /\ UNCHANGED <<textVars, dry_run, verbose, mode, force, pre, directory,
                 location, suffix, disk, task, local, result,
                 child_error_files, calls, opened, error_files, mainVars,
                 simple_fixed>>

\* lines 143-144: every file found is submitted to the pool
SubmitAll ==
  /\ mode = "batch" /\ mainpc = "walk"
  /\ walk = {}
  /\ task' = [f \in Files |-> IF f \in ts_files THEN "queued" ELSE "idle"]
  /\ mainpc' = "collect"
  /\ UNCHANGED <<textVars, argVars, disk, local, result, child_error_files,
                 calls, opened, error_files, fixed_files, skipped_files,
                 processed_files, collected, report, printed>>

\* a batch from the start of process_directory: nothing is found yet, every
\* file holds a text the rules would change
WalkInit ==
  /\ TextIdle
  /\ dry_run \in BOOLEAN
  /\ verbose = FALSE
  /\ mode = "batch"
  /\ force = FALSE
  /\ ts_files = {}
  /\ pre = [f \in Files |-> <<"/", "a">>]
  /\ disk = pre
  /\ task = [f \in Files |-> "idle"]
  /\ local = [f \in Files |-> NoLocal]
  /\ result = [f \in Files |-> NoResult]
  /\ child_error_files = NoFunction
  /\ calls = [f \in Files |-> 0]
  /\ opened = [f \in Files |-> 0]
  /\ fixed_files = NoFunction
  /\ skipped_files = {}
  /\ error_files = NoFunction
  /\ processed_files = 0
  /\ collected = {}
  /\ mainpc = "walk"
  /\ report = NoReport
  /\ printed = <<>>
  /\ directory \in Roots
  /\ location \in [Files -> TreeDirs]
  /\ suffix \in [Files -> Suffixes]
  /\ walk = {<<>>}
  /\ simple_fixed = 0

NextWalk ==
  \/ \E rel \in TreeDirs : WalkStep(rel)
  \/ SubmitAll
  \/ \E f \in Files : WorkerStart(f)
  \/ \E f \in Files : WorkerWrite(f)
  \/ \E f \in Files : Collect(f)
  \/ PrintSummary

SpecWalk == WalkInit /\ [][NextWalk]_vars

(***************************************************************************)
(* A run of fix_ts_comments.py: fix_file (lines 20-60) in the processes of *)
(* the pool, main's loop over the results (lines 85-96).                   *)
(***************************************************************************)
\* the contents files are given: FileTexts and a single-slash divider
SimpleFileTexts == FileTexts \cup { <<"/", "=">> }

\* what fix_file returns from its except clause: (file_path, False)
SimpleUncaught == Raised
SimpleCaught == Returned(FALSE, ZeroCounts)

\* fix_file from its start to its return, or to the open() of line 54
SimpleFixStart(f) ==
  /\ mode = "simple"
  /\ task[f] = "queued"
  /\ calls' = [calls EXCEPT ![f] = @ + 1]
  /\ IF disk[f] = BadBytes
     THEN \* open() or read() raises
          /\ result' = [result EXCEPT ![f] = SimpleCaught]
          /\ task' = [task EXCEPT ![f] = "done"]
          /\ UNCHANGED <<disk, local, opened>>
     ELSE \E t \in {SimpleTransform(disk[f])} :
          IF t # disk[f]
          THEN /\ opened' = [opened EXCEPT ![f] = @ + 1]
               /\ \/ \* open(file_path, 'w') raises
                     /\ result' = [result EXCEPT ![f] = SimpleCaught]
                     /\ task' = [task EXCEPT ![f] = "done"]
                     /\ UNCHANGED <<disk, local>>
                  \/ \* the file is open, and empty
                     /\ disk' = [disk EXCEPT ![f] = <<>>]
                     /\ local' = [local EXCEPT ![f] =
                          [content |-> t, fix_counts |-> ZeroCounts,
                           direct_fixes |-> 0]]
                     /\ task' = [task EXCEPT ![f] = "writing"]
                     /\ UNCHANGED result
          ELSE /\ result' = [result EXCEPT ![f] = Returned(FALSE, ZeroCounts)]
               /\ task' = [task EXCEPT ![f] = "done"]
               /\ UNCHANGED <<disk, local, opened>>
  /\ UNCHANGED <<argVars, mainVars, textVars, child_error_files, error_files>>

\* f.write(content) and the close of the file (lines 55-56)
SimpleFixWrite(f) ==
  /\ mode = "simple"
  /\ task[f] = "writing"
  /\ task' = [task EXCEPT ![f] = "done"]
  /\ \/ /\ disk' = [disk EXCEPT ![f] = local[f].content]
        /\ result' = [result EXCEPT ![f] = Returned(TRUE, ZeroCounts)]
     \/ \* write, flush or close raises
        /\ \E part \in PartialWrites(local[f].content) :
             disk' = [disk EXCEPT ![f] = part]
        /\ result' = [result EXCEPT ![f] = SimpleCaught]
  /\ UNCHANGED <<argVars, mainVars, textVars, local, calls, opened,
                 child_error_files, error_files>>

\* one turn of the as_completed loop (lines 90-94)
SimpleCollect(f) ==
  /\ mode = "simple" /\ mainpc = "collect"
  /\ f \in ts_files \ collected
  /\ task[f] = "done"
  /\ collected' = collected \cup {f}
  /\ IF result[f].status = "raised"
     THEN \* future.result() raises: main ends
          mainpc' = "crashed" /\ UNCHANGED <<simple_fixed, printed>>
     ELSE /\ simple_fixed' =
               IF result[f].was_fixed THEN simple_fixed + 1 ELSE simple_fixed
          /\ printed' =
               IF result[f].was_fixed THEN Append(printed, <<"Fixed", f>>)
               ELSE printed
          /\ UNCHANGED mainpc
  /\ UNCHANGED <<textVars, dry_run, verbose, mode, force, ts_files, pre,
                 directory, location, suffix, walk, disk, task, local, result,
                 child_error_files, calls, opened, error_files, fixed_files,
                 skipped_files, processed_files, report>>

\* the loop has ended: the closing line (line 96)
SimpleSummary ==
  /\ mode = "simple" /\ mainpc = "collect"
  /\ collected = ts_files
  /\ mainpc' = "done"
  /\ printed' = Append(printed, <<"Fixed comment formatting", simple_fixed>>)
  /\ UNCHANGED <<textVars, argVars, disk, task, local, result,
                 child_error_files, calls, opened, error_files, fixed_files,
                 skipped_files, processed_files, collected, report>>

\* main after find_ts_files (line 81) and the submissions of line 89
SimpleInit ==
  /\ TextIdle
  /\ dry_run = FALSE /\ verbose = FALSE /\ force = FALSE
  /\ mode = "simple"
  /\ ts_files \in {1..n : n \in 0..NumFiles}
  /\ pre \in [Files -> SimpleFileTexts \cup {BadBytes}]
  \* a file the run is not given holds a text the rules would change
  /\ \A f \in Files \ ts_files : pre[f] = <<"=">>
  /\ disk = pre
  /\ task = [f \in Files |-> IF f \in ts_files THEN "queued" ELSE "idle"]
  /\ local = [f \in Files |-> NoLocal]
  /\ result = [f \in Files |-> NoResult]
  /\ child_error_files = NoFunction
  /\ calls = [f \in Files |-> 0]
  /\ opened = [f \in Files |-> 0]
  /\ fixed_files = NoFunction
  /\ skipped_files = {}
  /\ error_files = NoFunction
  /\ processed_files = 0
  /\ collected = {}
  /\ mainpc = "collect"
  /\ report = NoReport
  /\ printed = <<>>
  /\ directory = <<>> /\ location = NoFunction /\ suffix = NoFunction
  /\ walk = {} /\ simple_fixed = 0

NextSimple ==
  \/ \E f \in Files : SimpleFixStart(f)
  \/ \E f \in Files : SimpleFixWrite(f)
  \/ \E f \in Files : SimpleCollect(f)
  \/ SimpleSummary

SpecSimple == SimpleInit /\ [][NextSimple]_vars
(***************************************************************************)
(* The claims.                                                             *)
(***************************************************************************)
Changes(s) == Transform(s).text # s
WriteFailed(f) ==
  \/ f \in DOMAIN child_error_files /\ child_error_files[f] = "write"
  \/ f \in DOMAIN error_files /\ error_files[f] = "write"
\* main has ended and no fix_file call is pending or running
RunEnded ==
  /\ mainpc \in {"done", "crashed"}
  /\ \A f \in ts_files : task[f] = "done"

RECURSIVE LogSum(_, _)
\* the sum of the match counts the passes of log recorded under key k
LogSum(log, k) ==
  IF log = <<>> THEN 0
  ELSE (IF Head(log)[1] = k THEN Head(log)[2] ELSE 0) + LogSum(Tail(log), k)

\* C1 (under SpecNormalize): normalization is idempotent.  Once a script's
\* whole pipeline has been applied to the text it produced itself, that text
\* is unchanged and, for CommentFixer, the tally returned is all zeros.
C1_Idempotent ==
  step = 2 =>
    /\ content = prev
    /\ rule = "CommentFixer" => tally = ZeroCounts

\* C2: in preview (dry-run) mode nothing is ever written, in batch mode and in
\* single-file mode with or without --force: no file is opened for writing,
\* every file holds its pre-run content, no write error is recorded, every
\* fix_file call that returns reports not-fixed with the computed tally when
\* the text would change and with zeros when not, and the file is listed as
\* skipped (batch) or printed as "Would fix" (single) exactly in the first
\* case.
C2_PreviewNeverWrites ==
  dry_run =>
    /\ disk = pre
    /\ \A f \in Files :
         /\ opened[f] = 0
         /\ task[f] # "writing"
         /\ ~WriteFailed(f)
         /\ result[f].status = "returned" =>
              /\ ~result[f].was_fixed
              /\ result[f].counts =
                   IF Changes(pre[f]) THEN Transform(pre[f]).counts
                   ELSE ZeroCounts
              /\ Changes(pre[f]) <=> result[f].counts["total"] > 0
         /\ f \notin DOMAIN fixed_files
         /\ (f \in collected /\ result[f].status = "returned") =>
              (f \in skipped_files <=> Changes(pre[f]))
    /\ mainpc # "force_writing"
    /\ \A i \in 1..Len(printed) :
         /\ printed[i][1] \notin {"Fixed", "Applied direct fixes",
                                  "Error during force mode"}
         /\ i = 1 => (printed[i][1] = "Would fix" <=> Changes(pre[1]))

\* a preview run of single-file mode with --force has ended and announced
\* both the fixes of fix_file and the direct fixes
C2_Witness ==
  /\ dry_run /\ mode = "single" /\ force /\ mainpc = "done"
  /\ Len(printed) = 2
  /\ printed[1][1] = "Would fix"
  /\ printed[2][1] = "Would apply direct fixes"

\* C3: writes are atomic.  While fix_file is writing a file, and after its
\* write has failed, the file holds its pre-run content.
C3_AtomicWrite ==
  \A f \in Files :
    (task[f] = "writing" \/ WriteFailed(f)) => disk[f] = pre[f]

\* C4: a file that cannot be read or decoded ends in an error for that file
\* only: its fix_file call returns normally and the run does not break off.
C4_ReadErrorContained ==
  /\ \A f \in Files : result[f].status # "raised"
  /\ mainpc # "crashed"

\* C5: after a batch run the report's error count is the number of files
\* whose processing failed in a worker, and in verbose mode each of them is
\* listed with its message.
C5_ErrorsReported ==
  (mode = "batch" /\ report.made) =>
    /\ report.errors = Cardinality(DOMAIN child_error_files)
    /\ verbose =>
         report.listed_errors =
           {<<f, child_error_files[f]>> : f \in DOMAIN child_error_files}

\* C6: a file whose text normalization leaves as it is, is reported unchanged
\* (not fixed, not would-fix, zero tally) and keeps its content, in both
\* modes; a file is opened for writing only in apply mode and only when
\* normalization changes its text, and no file changes without being opened.
C6_WrittenOnlyWhenChanged ==
  \A f \in Files :
    /\ opened[f] > 0 => (~dry_run /\ Changes(pre[f]))
    /\ disk[f] # pre[f] => opened[f] > 0
    /\ (pre[f] # BadBytes /\ ~Changes(pre[f]) /\ task[f] = "done") =>
         /\ result[f] = Returned(FALSE, ZeroCounts)
         /\ disk[f] = pre[f]
         /\ f \notin DOMAIN fixed_files
         /\ f \notin skipped_files
         /\ (mode = "single" /\ Len(printed) > 0) =>
              printed = << <<"No issues found", 0>> >>

\* an apply-mode batch has ended with one file fixed on disk and another,
\* whose text needs no change, collected as unchanged
C6_Witness ==
  /\ ~dry_run /\ mode = "batch" /\ mainpc = "done"
  /\ \E f, g \in ts_files :
       /\ f \in DOMAIN fixed_files /\ disk[f] # pre[f]
       /\ ~Changes(pre[g]) /\ pre[g] # BadBytes /\ g \in collected

C8_Independence ==
  (mode = "batch" /\ RunEnded /\ 1 \in ts_files /\ pre[1] # BadBytes) =>
    /\ report.made
    /\ result[1].was_fixed =>
         (1 \in DOMAIN fixed_files /\ fixed_files[1] = result[1].counts)
    /\ (~result[1].was_fixed /\ result[1].counts["total"] > 0) =>
         1 \in skipped_files

\* C9 (under SpecPasses): bounded convergence.  fix_file runs at most
\* Len(Passes) rule passes, of which at most Pattern6Iterations are the
\* repeated divider pass, and the tally it returns is, key by key, the sum
\* of the match counts its passes recorded, total being the sum of them all.
C9_BoundedConvergence ==
  /\ step <= Len(Passes)
  /\ Len(passLog) = step
  /\ Cardinality({i \in 1..Len(passLog) : passLog[i][1] = "section_headers"})
       <= Pattern6Iterations
  /\ rule = "returned" =>
       /\ step = Len(Passes)
       /\ \A k \in Categories : tally[k] = LogSum(passLog, k)
       /\ tally["total"] = SumOver([k \in Categories |-> LogSum(passLog, k)],
                                   Categories)

\* fix_file has returned a tally with counts from two different passes
C9_Witness ==
  /\ rule = "returned"
  /\ tally["standalone_slashes"] > 1
  /\ tally["multiline_sections"] > 0
  /\ tally["total"] > tally["standalone_slashes"] + tally["multiline_sections"]

\* C10 (under SpecRule): every rule is idempotent on its own.  Applied to the
\* text it produced itself, a rule matches nothing and leaves the text as it
\* is.
C10_RuleIdempotent ==
  step = 2 => (content = prev /\ matches = 0)

\* C11 (under SpecNormalize): the text "/ === SECTION ===\n" is normalized to
\* "// === SECTION ===\n" with a tally in which section_headers is 1 and every
\* other fix category is 0.
C11_DividerSlashCounted ==
  (input = SectionLine /\ rule = "CommentFixer" /\ step = 1) =>
    /\ content = <<"/">> \o SectionLine
    /\ \A k \in Categories :
         tally[k] = IF k = "section_headers" THEN 1 ELSE 0
\* C12 (under SpecNormalize): title-line insertion changes the title line
\* only.  "/ === \nTITLE\n// ===\n" is normalized, by both scripts, to
\* "// === \n// TITLE\n// ===\n": the first divider keeps its trailing blank;
\* CommentFixer's tally counts two fixes, one of them the title insertion.
C12_TitleLineOnly ==
  (input = TitleBanner /\ step = 1) =>
    /\ content =
         <<"/", "/", " ", "=", "=", "=", " ", NL,
           "/", "/", " ", "A", "A", "A", "A", "A", NL,
           "/", "/", " ", "=", "=", "=", NL>>
    /\ rule = "CommentFixer" =>
         (tally["multiline_sections"] = 1 /\ tally["total"] = 2)
\* the first character of the line that is no blank is not a single slash
CommentDoubled(line) ==
  \A i \in {SkipWhile(line, 1, {" "})} :
    CharAt(line, i) = "/" => CharAt(line, i + 1) = "/"
\* the line is made of '=' signs and blanks only
BareDivider(line) ==
  /\ \E i \in 1..Len(line) : line[i] = "="
  /\ \A i \in 1..Len(line) : line[i] \in {"=", " "}
\* the line is made of upper-case words only
BareHeader(line) ==
  /\ \E i \in 1..Len(line) : line[i] \in Upper
  /\ \A i \in 1..Len(line) : line[i] \in TitleCh
\* every comment of s uses a doubled slash, and s has no bare divider line
\* and no bare upper-case header line
Clean(s) ==
  \A lines \in {SplitLines(s)} :
    \A i \in 1..Len(lines) :
      /\ CommentDoubled(lines[i])
      /\ ~BareDivider(lines[i])
      /\ ~BareHeader(lines[i])

\* C13 (under SpecNormalize): no-op on clean input.  A text whose comments
\* all use a doubled slash and that has no bare divider line and no bare
\* upper-case header line, code lines with a slash that is no comment marker
\* included, is returned unchanged by both scripts, with an all-zero tally.
C13_CleanNoOp ==
  (step = 1 /\ Clean(input)) =>
    /\ content = input
    /\ rule = "CommentFixer" => tally = ZeroCounts
\* a single-file run with --force in apply mode has ended without an error
ForceRunEnded ==
  /\ mode = "single" /\ force /\ ~dry_run /\ mainpc = "done"
  /\ result[1].status = "returned"
  /\ DOMAIN error_files = {}
  /\ \A i \in 1..Len(printed) : printed[i][1] # "Error during force mode"

\* C14: single-file --force in apply mode.  When the run has ended without
\* an error, no line of the file starts with a single slash that is not
\* doubled, every line that started with '//' is exactly as it was, and the
\* lines that do not start with a slash are as the force step found them.
C14_ForceDoublesOnlySingles ==
  ForceRunEnded =>
    \A before \in {SplitLines(pre[1])} : \A after \in {SplitLines(disk[1])} :
      /\ \A i \in 1..Len(after) : ~StartsWithSingleSlash(after[i])
      /\ Len(after) = Len(before)
      /\ \A i \in 1..Len(before) :
           (CharAt(before[i], 1) = "/" /\ CharAt(before[i], 2) = "/")
             => after[i] = before[i]
      /\ ~result[1].was_fixed =>
           \A i \in 1..Len(before) :
             CharAt(before[i], 1) # "/" => after[i] = before[i]
\* the files the run fixed (apply) or would fix (preview)
FilesFixed ==
  {f \in ts_files : /\ result[f].status = "returned"
                    /\ Changes(pre[f])
                    /\ (dry_run \/ result[f].was_fixed)}

RECURSIVE TallySum(_, _)
\* the sum, over the files f of S, of category k in the tally that
\* normalizing the file's pre-run text gives
TallySum(S, k) ==
  IF S = {} THEN 0
  ELSE \* any order: the sum is the same
       LET f == CHOOSE x \in S : TRUE
       IN Transform(pre[f]).counts[k] + TallySum(S \ {f}, k)

\* C15: the run-level tally is an additive merge.  In the report of a batch,
\* every category, and the total, is the sum of that category over the
\* tallies of the files that were fixed (apply) or would be fixed (preview),
\* in every order in which the results arrive.
C15_AdditiveMerge ==
  (mode = "batch" /\ report.made) =>
    \A k \in Keys : report.total_fixes[k] = TallySum(FilesFixed, k)

\* a batch has reported two fixed files with fixes of the same category, or
\* two would-fix files
C15_Witness ==
  /\ mode = "batch" /\ report.made
  /\ Cardinality(FilesFixed) = 2
  /\ report.total_fixes["standalone_slashes"] = 2
  /\ report.total_fixes["total"] = 2
\* C16: the report accounts for every file.  The 'Total processed' figure of
\* a batch's report is the number of files discovered and dispatched.
C16_ReportAccountsForAll ==
  (mode = "batch" /\ report.made) =>
    report.total_processed = Cardinality(ts_files)
\* the file lies under a directory whose name is in the exclude list
UnderExcluded(f) ==
  \E i \in 1..Len(location[f]) : location[f][i] \in ExcludeNames

\* C17 (under SpecWalk): exclusion pruning.  A file that lies under a
\* directory whose name is in the exclude list, at any depth below
\* args.path, is never found, never read and never written.
C17_ExcludedUntouched ==
  \A f \in Files :
    UnderExcluded(f) =>
      /\ f \notin ts_files
      /\ calls[f] = 0
      /\ opened[f] = 0
      /\ disk[f] = pre[f]
\* C18: tally and change agree.  Whenever fix_file has returned without an
\* error, the total of its tally is positive exactly when normalization
\* changes the text read, the total is the sum of the other categories, and
\* the file is classified fixed (apply) or would-fix (preview), in the
\* collections of a batch and in the result line of a single-file run,
\* exactly when the total is positive.
C18_TallyAgreesWithChange ==
  \A f \in Files :
    (result[f].status = "returned" /\ ~WriteFailed(f)) =>
      /\ result[f].counts["total"] > 0 <=> Changes(pre[f])
      /\ result[f].counts["total"] = SumOver(result[f].counts, Categories)
      /\ result[f].was_fixed <=> (~dry_run /\ result[f].counts["total"] > 0)
      /\ (mode = "batch" /\ f \in collected) =>
           /\ f \in DOMAIN fixed_files
                <=> (~dry_run /\ result[f].counts["total"] > 0)
           /\ f \in skipped_files
                <=> (dry_run /\ result[f].counts["total"] > 0)
      /\ (mode = "single" /\ Len(printed) > 0) =>
           /\ printed[1][1] = "Fixed"
                <=> (~dry_run /\ result[f].counts["total"] > 0)
           /\ printed[1][1] = "Would fix"
                <=> (dry_run /\ result[f].counts["total"] > 0)
           /\ printed[1][2] = result[f].counts["total"]

\* a single-file run has fixed a file with substitutions of two categories
C18_Witness ==
  /\ mode = "single" /\ ~dry_run
  /\ result[1].status = "returned" /\ result[1].was_fixed
  /\ result[1].counts["standalone_slashes"] = 1
  /\ result[1].counts["naked_headers"] = 1
  /\ result[1].counts["total"] = 2
  /\ printed = << <<"Fixed", 2>> >>

\* (under SpecPasses) the counts fix_file has summed up before it decides
\* what to return: their total is positive exactly when the passes changed
\* the text
RawTallyAgreesWithChange ==
  rule = "returned" => (fix_counts["total"] > 0 <=> content # input)
\* C19: in every state of a batch, fixed_files and skipped_files are
\* disjoint; in preview mode fixed_files is empty, in apply mode
\* skipped_files is empty, and a file whose text normalization leaves as it
\* is, is in neither.
C19_FixedSkippedDisjoint ==
  /\ DOMAIN fixed_files \cap skipped_files = {}
  /\ dry_run => DOMAIN fixed_files = {}
  /\ ~dry_run => skipped_files = {}
  /\ \A f \in Files :
       (pre[f] # BadBytes /\ ~Changes(pre[f])) =>
         (f \notin DOMAIN fixed_files /\ f \notin skipped_files)

\* a preview batch has collected a would-fix file and an unchanged file
C19_Witness ==
  /\ mode = "batch" /\ dry_run
  /\ collected = {1, 2}
  /\ Cardinality(skipped_files) = 1
  /\ \E f \in collected \ skipped_files : pre[f] = <<"/", "/", "a">>
\* the categories no pass of fix_file ever counts a substitution under
IdleKeys == {"section_headers", "section_titles", "mixed_slash_headers"}

\* C20 (under SpecPasses): once the standalone-slash rule has run, no line of
\* the text starts with a single slash that is not doubled, in every later
\* pass too; the passes of the divider loop (pattern 6) match nothing, and
\* section_headers, section_titles and mixed_slash_headers are 0 in the
\* counts fix_file keeps and in the tally it returns.
C20_DividerLoopIdle ==
  /\ step >= 1 =>
       \A lines \in {SplitLines(content)} :
         \A i \in 1..Len(lines) : ~StartsWithSingleSlash(lines[i])
  /\ \A i \in 1..Len(passLog) :
       passLog[i][1] = "section_headers" => passLog[i][2] = 0
  /\ \A k \in IdleKeys : fix_counts[k] = 0 /\ tally[k] = 0

\* fix_file has returned for a text in which a line starts with a single
\* slash before a divider, the case pattern 6 is written for
C20_Witness ==
  /\ rule = "returned"
  /\ ApplyRule("divider_slash", input).n > 0
  /\ Len(passLog) = Len(Passes)
  /\ tally["standalone_slashes"] > 0
  /\ tally["section_headers"] = 0
\* the force step has opened the file for writing
ForceOpened ==
  \/ mainpc = "force_writing"
  \/ \E i \in 1..Len(printed) :
       printed[i][1] \in {"Applied direct fixes", "Error during force mode"}

\* C21: in single-file apply mode with --force, when fix_file has returned
\* without an error, the force step finds no line that starts with a single
\* slash and writes nothing: the file holds what fix_file left, and nothing
\* is printed after the result line.  The force step writes only after
\* fix_file failed, and "Would apply direct fixes" is printed only in
\* preview mode.
C21_ForceIdleAfterSuccess ==
  (mode = "single" /\ force) =>
    /\ (~dry_run /\ result[1].status = "returned" /\ ~WriteFailed(1)) =>
         /\ mainpc = "force" => ForceReplace(disk[1]).n = 0
         /\ ~ForceOpened
         /\ Len(printed) <= 1
         /\ opened[1] = IF result[1].was_fixed THEN 1 ELSE 0
         /\ disk[1] = IF result[1].was_fixed THEN Transform(pre[1]).text
                      ELSE pre[1]
    /\ ForceOpened => (~dry_run /\ WriteFailed(1))
    /\ \A i \in 1..Len(printed) :
         printed[i][1] = "Would apply direct fixes" => dry_run

\* an apply run with --force has ended after fix_file returned a file
\* unchanged and the force step ran and found nothing to do
C21_Witness ==
  /\ mode = "single" /\ force /\ ~dry_run /\ mainpc = "done"
  /\ result[1] = Returned(FALSE, ZeroCounts)
  /\ ~WriteFailed(1)
  /\ printed = << <<"No issues found", 0>> >>
  /\ disk[1] = pre[1]
\* the changed content of the file has been written completely
WrittenCompletely(f) ==
  /\ task[f] = "done"
  /\ pre[f] # BadBytes
  /\ SimpleTransform(pre[f]) # pre[f]
  /\ disk[f] = SimpleTransform(pre[f])

\* a worker can start or finish a call, or main can take a result or end
SimpleCanGoOn ==
  \/ \E f \in ts_files : task[f] \in {"queued", "writing"}
  \/ \E f \in ts_files \ collected : task[f] = "done"
  \/ collected = ts_files

\* C22 (under SpecSimple): in fix_ts_comments.py no exception leaves
\* fix_file.  Whatever fails, every call returns, a call that failed returns
\* (path, False), main never breaks off and can go on until it has collected
\* the result of every discovered file, one call per file, and its counter,
\* and the number in its closing line, is the number of collected files
\* whose changed content was written completely.
C22_SimpleCatchesAll ==
  mode = "simple" =>
    /\ mainpc # "crashed"
    /\ \A f \in Files :
         /\ result[f].status # "raised"
         /\ task[f] = "done" => (result[f].status = "returned" /\ calls[f] = 1)
         /\ f \notin ts_files => calls[f] = 0
         /\ (task[f] = "done" /\
             (pre[f] = BadBytes \/ disk[f] \notin {pre[f], SimpleTransform(pre[f])}))
              => result[f] = Returned(FALSE, ZeroCounts)
         /\ result[f].was_fixed <=> WrittenCompletely(f)
    /\ collected \subseteq {f \in ts_files : task[f] = "done"}
    /\ simple_fixed = Cardinality({f \in collected : WrittenCompletely(f)})
    /\ mainpc = "done" =>
         /\ collected = ts_files
         /\ printed[Len(printed)] = <<"Fixed comment formatting",
              Cardinality({f \in ts_files : WrittenCompletely(f)})>>
    /\ mainpc # "done" => SimpleCanGoOn

\* a run over two files has ended: one file could not be read, the write of
\* the other failed half-way, and main counted no fixed file
C22_Witness ==
  /\ mode = "simple" /\ mainpc = "done"
  /\ collected = {1, 2}
  /\ \E f, g \in collected :
       /\ pre[f] = BadBytes
       /\ disk[g] \notin {pre[g], SimpleTransform(pre[g])}
  /\ simple_fixed = 0
====
